---- MODULE Spec2Model ----
(***************************************************************************)
(* A model of the hypercraft guest-execution core:                         *)
(*   - the emulated-device registry            (src/src/device/emu.rs)     *)
(*   - the virtio block notify handler         (src/src/device/virtio/blk.rs) *)
(*   - vCPU creation, the run loop, GPR offsets (src/src/arch/riscv/vcpu.rs) *)
(* The registry is shared by several cores and guarded by a spin lock; a   *)
(* panic! terminates the whole hypervisor (variable panicked).             *)
(***************************************************************************)
EXTENDS Integers, Sequences, FiniteSets, TLC

VARIABLES
    EMU_DEVS_LIST,  \* emu.rs:9   the registry, a Vec<EmuDevEntry>
    lock,           \* emu.rs:9   holder of the Mutex around the registry (NoCore = free)
    epc,            \* per core: position inside emu_register_dev / emu_handler
    eargs,          \* per core: arguments of the call in progress
    etarget,        \* per core: (handler, id) picked by emu_handler's scan
    invoked,        \* per core: handler invocations made by the current emu_handler call
    eret,           \* per core: result of the last finished call
    estack,         \* per core: the emu_handler calls whose handler is running a call
    panicked,       \* a panic! was raised: the process is gone
    \* the virtqueue (Virtq) and the guest memory it lives in
    ready,          \* vq.ready()
    avail_ring,     \* heads published by the driver; the producer index is its length
    last_avail_idx, \* consumer index of the available ring
    used_flags,     \* flags of the used ring (VRING_USED_F_NO_NOTIFY)
    used_ring,      \* completions posted by update_used_ring
    vq_num,         \* size of the queue: completions the used ring has room for
    desc_table,     \* the descriptor table
    mem,            \* guest buffers, by host address
    BLOCK_DEVICE,   \* blk.rs:376 the backing store
    \* virtio_blk_notify_handler
    npc,            \* position inside the handler
    avail_idx,      \* blk.rs:205 the snapshot of the producer index
    next_desc_idx_opt, \* blk.rs:221
    req_list,       \* blk.rs:219
    nret,           \* result of the last finished notification
    dropped,        \* history: positions of the available ring popped by a
                    \* notification that then returned false
    \* the guest driver
    kicks,          \* queue notifications not yet handled
    dpc,            \* position of the driver between publishing and kicking
    \* the vCPU (src/src/arch/riscv/vcpu.rs)
    csr,             \* the control registers of the hart that the code reads
    regs,           \* vcpu.rs:125 VCpu.regs, a VmCpuRegisters
    vpc,            \* position inside VCpu::create / VCpu::run
    owed,           \* guest traps the exit handler has not been called for
    seen,           \* the trap_csrs the exit handler found when it was last called
    gpr_off         \* vcpu.rs:197-264 the GPR offsets last evaluated for guest.S

emuVars == <<EMU_DEVS_LIST, lock, epc, eargs, etarget, invoked, eret, estack>>

vqVars == <<ready, avail_ring, last_avail_idx, used_flags, used_ring, vq_num, desc_table,
           mem>>

blkVars == <<ready, avail_ring, last_avail_idx, used_flags, used_ring, vq_num, desc_table,
             mem, BLOCK_DEVICE, npc, avail_idx, next_desc_idx_opt, req_list, nret, dropped,
             kicks, dpc>>

vcpuVars == <<csr, regs, vpc, owed, seen, gpr_off>>

vars == <<EMU_DEVS_LIST, lock, epc, eargs, etarget, invoked, eret, estack, panicked,
          ready, avail_ring, last_avail_idx, used_flags, used_ring, vq_num, desc_table,
          mem, BLOCK_DEVICE, npc, avail_idx, next_desc_idx_opt, req_list, nret, dropped,
          kicks, dpc,
          csr, regs, vpc, owed, seen, gpr_off>>

-----------------------------------------------------------------------------
(* Bounds of the model *)

NumCores == 2   \* cores that fault into MMIO emulation / register devices
MaxAddr  == 2   \* guest-physical addresses 0..MaxAddr are used by registrations
MaxSize  == 2   \* sizes 1..MaxSize
MaxNest  == 1   \* calls a running handler may have in progress

Cores    == 1..NumCores
NoCore   == 0
Devices  == {<<0, "h1">>, <<1, "h2">>}   \* (dev_id, handler) of the devices registered

(* Program constants *)
EMU_DEV_NUM_MAX == 32

NoArgs   == [kind |-> "none"]
NoTarget == [handler |-> "none", id |-> 0]

(* what a finished call returned: nothing yet, (), or a bool *)
NoRet      == [kind |-> "none", val |-> FALSE]
RetUnit    == [kind |-> "unit", val |-> FALSE]
RetBool(b) == [kind |-> "bool", val |-> b]

-----------------------------------------------------------------------------
(* crate::arch::in_range(addr, base, size): addr lies in [base, base+size], *)
(* both ends included; every caller passes size - 1.                       *)
in_range_excl(addr, base, size) == addr >= base /\ addr < base + size

in_range(addr, base, size) == addr >= base /\ addr <= base + size

(* emu.rs:94 the overlap test of one existing entry against the new range *)
RegionClash_oneway(address, size, emu_dev) ==
    in_range(address, emu_dev.ipa, emu_dev.size - 1)

RegionClash(address, size, emu_dev) ==
    \/ in_range(address, emu_dev.ipa, emu_dev.size - 1)
    \/ in_range(emu_dev.ipa, address, size - 1)

(* emu.rs:86 *)
TableFull_off(list) == Len(list) > EMU_DEV_NUM_MAX

TableFull(list) == Len(list) >= EMU_DEV_NUM_MAX

(* emu.rs:60-67 the first entry whose range contains ipa, 0 if none *)
RECURSIVE ScanFrom(_, _, _)
ScanFrom(list, ipa, i) ==
    IF i > Len(list) THEN 0
    ELSE IF in_range(ipa, list[i].ipa, list[i].size - 1) THEN i
    ELSE ScanFrom(list, ipa, i + 1)

RECURSIVE ScanFrom_wholesize(_, _, _)
ScanFrom_wholesize(list, ipa, i) ==
    IF i > Len(list) THEN 0
    ELSE IF in_range(ipa, list[i].ipa, list[i].size) THEN i
    ELSE ScanFrom_wholesize(list, ipa, i + 1)

FirstMatch_wholesize(list, ipa) == ScanFrom_wholesize(list, ipa, 1)

FirstMatch(list, ipa) == ScanFrom(list, ipa, 1)

(* emu.rs:85, emu.rs:58  EMU_DEVS_LIST.lock(): spins until the mutex is free *)
LockFree_nomutex == TRUE

LockFree == lock = NoCore

(* emu.rs:64 drop(emu_devs_list) before the handler is called; emu.rs:73 the *)
(* guard is dropped when emu_handler returns without a match               *)
LockAfterScan_held(c, m) ==
    IF m # 0 THEN lock ELSE IF lock = c THEN NoCore ELSE lock

LockAfterScan(c, m) == IF lock = c THEN NoCore ELSE lock

(* A call is made by a core that runs nothing of the registry (site "idle") *)
(* or by the handler that emu_handler is running on the core (site         *)
(* "emu_call"): the call in progress is put aside until the new one returns *)
CallFrom(c, site) ==
    /\ epc[c] = site
    /\ IF site = "emu_call"
       THEN /\ Len(estack[c]) < MaxNest
            /\ estack' = [estack EXCEPT ![c] =
                             Append(@, [args |-> eargs[c], target |-> etarget[c],
                                        invoked |-> invoked[c]])]
       ELSE UNCHANGED estack

(* the call of core c returns ret: to the handler that made it, or to the  *)
(* caller outside the registry                                             *)
ReturnTo(c, ret, log) ==
    /\ eret' = [eret EXCEPT ![c] = ret]
    /\ IF estack[c] = <<>>
       THEN /\ epc' = [epc EXCEPT ![c] = "idle"]
            /\ eargs' = [eargs EXCEPT ![c] = NoArgs]
            /\ etarget' = [etarget EXCEPT ![c] = NoTarget]
            /\ invoked' = [invoked EXCEPT ![c] = log]
            /\ UNCHANGED estack
       ELSE LET f == estack[c][Len(estack[c])] IN
            /\ epc' = [epc EXCEPT ![c] = "emu_call"]
            /\ eargs' = [eargs EXCEPT ![c] = f.args]
            /\ etarget' = [etarget EXCEPT ![c] = f.target]
            /\ invoked' = [invoked EXCEPT ![c] = f.invoked]
            /\ estack' = [estack EXCEPT ![c] = SubSeq(@, 1, Len(@) - 1)]

-----------------------------------------------------------------------------
(* emu_register_dev, emu.rs:76-110 *)

\* emu.rs:85 take the registry lock
emu_register_dev_lock(c, in, site) ==
    /\ ~panicked
    /\ UNCHANGED blkVars
    /\ UNCHANGED vcpuVars
    /\ CallFrom(c, site)
    /\ LockFree
    /\ lock' = c
    /\ epc' = [epc EXCEPT ![c] = "reg_check"]
    /\ eargs' = [eargs EXCEPT ![c] = [kind |-> "reg", emu_type |-> in.emu_type,
                                       dev_id |-> in.dev_id, address |-> in.address,
                                       size |-> in.size, handler |-> in.handler]]
    /\ invoked' = [invoked EXCEPT ![c] = <<>>]
    /\ eret' = [eret EXCEPT ![c] = NoRet]
    /\ etarget' = [etarget EXCEPT ![c] = NoTarget]
    /\ UNCHANGED <<EMU_DEVS_LIST, panicked>>

\* emu.rs:86-97 capacity check and overlap scan; either panics or goes on
emu_register_dev_check(c) ==
    /\ ~panicked
    /\ UNCHANGED blkVars
    /\ UNCHANGED vcpuVars
    /\ epc[c] = "reg_check"
    /\ IF \/ TableFull(EMU_DEVS_LIST)
          \/ \E i \in 1..Len(EMU_DEVS_LIST) :
                RegionClash(eargs[c].address, eargs[c].size, EMU_DEVS_LIST[i])
       THEN /\ panicked' = TRUE
            /\ UNCHANGED <<epc>>
       ELSE /\ epc' = [epc EXCEPT ![c] = "reg_push"]
            /\ UNCHANGED <<panicked>>
    /\ UNCHANGED <<EMU_DEVS_LIST, lock, eargs, etarget, invoked, eret, estack>>

\* emu.rs:99-110 push the entry; the guard is dropped at the end of the function
emu_register_dev_push(c) ==
    /\ ~panicked
    /\ UNCHANGED blkVars
    /\ UNCHANGED vcpuVars
    /\ epc[c] = "reg_push"
    /\ EMU_DEVS_LIST' = Append(EMU_DEVS_LIST,
                               [emu_type |-> eargs[c].emu_type, id |-> eargs[c].dev_id,
                                ipa |-> eargs[c].address, size |-> eargs[c].size,
                                handler |-> eargs[c].handler])
    /\ lock' = IF lock = c THEN NoCore ELSE lock
    /\ ReturnTo(c, RetUnit, invoked[c])
    /\ UNCHANGED panicked

-----------------------------------------------------------------------------
(* emu_handler, emu.rs:56-74 *)

\* emu.rs:57-58 read ctx.address, take the registry lock
emu_handler_lock(c, address, site) ==
    /\ ~panicked
    /\ UNCHANGED blkVars
    /\ UNCHANGED vcpuVars
    /\ CallFrom(c, site)
    /\ LockFree
    /\ lock' = c
    /\ epc' = [epc EXCEPT ![c] = "emu_scan"]
    /\ eargs' = [eargs EXCEPT ![c] = [kind |-> "emu", address |-> address]]
    /\ invoked' = [invoked EXCEPT ![c] = <<>>]
    /\ eret' = [eret EXCEPT ![c] = NoRet]
    /\ etarget' = [etarget EXCEPT ![c] = NoTarget]
    /\ UNCHANGED <<EMU_DEVS_LIST, panicked>>

\* emu.rs:60-73 scan; on a match copy handler and id and drop the lock,
\* without a match log, return false (the guard is dropped on return)
emu_handler_scan(c) ==
    /\ ~panicked
    /\ UNCHANGED blkVars
    /\ UNCHANGED vcpuVars
    /\ epc[c] = "emu_scan"
    /\ LET m == FirstMatch(EMU_DEVS_LIST, eargs[c].address) IN
       IF m # 0
       THEN /\ etarget' = [etarget EXCEPT ![c] = [handler |-> EMU_DEVS_LIST[m].handler,
                                                   id |-> EMU_DEVS_LIST[m].id]]
            /\ epc' = [epc EXCEPT ![c] = "emu_call"]
            /\ UNCHANGED <<eret, eargs, invoked, estack>>
            /\ lock' = LockAfterScan(c, m)
       ELSE /\ ReturnTo(c, RetBool(FALSE), invoked[c])
            /\ lock' = LockAfterScan(c, m)
    /\ UNCHANGED <<EMU_DEVS_LIST, panicked>>

\* emu.rs:65 return handler(id, emu_ctx): the handler is any fn, its result any bool
emu_handler_call(c, result) ==
    /\ ~panicked
    /\ UNCHANGED blkVars
    /\ UNCHANGED vcpuVars
    /\ epc[c] = "emu_call"
    /\ ReturnTo(c, RetBool(result),
                Append(invoked[c], [handler |-> etarget[c].handler, id |-> etarget[c].id,
                                    result |-> result]))
    /\ UNCHANGED <<EMU_DEVS_LIST, lock, panicked>>

-----------------------------------------------------------------------------
(* The virtio block device, src/src/device/virtio/blk.rs *)

SECTOR_BSIZE        == 512
SECTORS_NUM         == 32
VIRTIO_BLK_T_IN     == 0
VIRTIO_BLK_T_OUT    == 1
VIRTIO_BLK_T_FLUSH  == 4
VIRTIO_BLK_T_GET_ID == 8
VIRTIO_BLK_S_OK     == 0
VIRTIO_BLK_S_UNSUPP == 2
DEVICE_NAME_LEN     == 12   \* length of the literal "virtio-blk-0"
GET_ID_COPY_LEN     == 20   \* bytes copied by GET_ID

(* flag bits of the virtio split queue *)
VIRTQ_DESC_F_NEXT       == 1
VIRTQ_DESC_F_WRITE      == 2
VRING_USED_F_NO_NOTIFY  == 1

(* Bounds *)
MaxChains == 2   \* chains the driver publishes in one behaviour
MaxData   == 1   \* data descriptors of a well-formed IN / OUT chain

ChainSlots == MaxData + 2            \* descriptors reserved per chain
DescIdx    == 0..(MaxChains * ChainSlots - 1)
None       == -1                     \* Option::None of pop_avail_desc_idx

(* Guest memory is a set of buffers, one per descriptor.  The content of a  *)
(* buffer is a run-length list <<[len, val], ...>>: len bytes of value val. *)
(* A header field is one run holding the field's value.                     *)
GUEST_BASE   == 4096    \* guest-physical address of the first buffer
HOST_OFFSET  == 65536   \* vm_ipa2pa adds this to a mapped address
UNMAPPED_IPA == 1       \* an address vm_ipa2pa cannot translate
NAME_BYTE    == 1000    \* a byte of the literal "virtio-blk-0"
OOB_BYTES    == {2000, 2001}  \* what may lie behind the literal in memory
JUNK_BYTE    == 255     \* content of a buffer the driver did not fill
STATUS_UNSET == 255     \* status byte before the device writes it

RECURSIVE RunsLen(_)
RunsLen(r) == IF r = <<>> THEN 0 ELSE Head(r).len + RunsLen(Tail(r))

RECURSIVE TakeBytes(_, _)
TakeBytes(r, n) ==
    IF n <= 0 \/ r = <<>> THEN <<>>
    ELSE IF Head(r).len <= n THEN <<Head(r)>> \o TakeBytes(Tail(r), n - Head(r).len)
    ELSE <<[len |-> n, val |-> Head(r).val]>>

RECURSIVE DropBytes(_, _)
DropBytes(r, n) ==
    IF r = <<>> THEN <<>>
    ELSE IF n <= 0 THEN r
    ELSE IF Head(r).len <= n THEN DropBytes(Tail(r), n - Head(r).len)
    ELSE <<[len |-> Head(r).len - n, val |-> Head(r).val]>> \o Tail(r)

RECURSIVE Norm(_)
Norm(r) ==
    IF r = <<>> THEN <<>>
    ELSE IF Head(r).len = 0 THEN Norm(Tail(r))
    ELSE IF Len(r) = 1 THEN r
    ELSE IF r[2].len = 0 THEN Norm(<<r[1]>> \o Tail(Tail(r)))
    ELSE IF r[1].val = r[2].val
         THEN Norm(<<[len |-> r[1].len + r[2].len, val |-> r[1].val]>> \o Tail(Tail(r)))
    ELSE <<r[1]>> \o Norm(Tail(r))

\* bytes [off, off+cnt) of r
Slice(r, off, cnt) == Norm(TakeBytes(DropBytes(r, off), cnt))

\* core::ptr::copy_nonoverlapping(src, dst + off, RunsLen(src))
CopyInto(dst, off, src) ==
    Norm(TakeBytes(dst, off) \o src \o DropBytes(dst, off + RunsLen(src)))

\* the value of the field that starts at byte off
RECURSIVE ReadField(_, _)
ReadField(r, off) ==
    IF r = <<>> THEN 0
    ELSE IF off < Head(r).len THEN Head(r).val
    ELSE ReadField(Tail(r), off - Head(r).len)

Fill(n, v) == <<[len |-> n, val |-> v]>>

\* the 64-bit field that starts at byte off, as its four 16-bit words
ReadU64(r, off) ==
    <<ReadField(r, off), ReadField(r, off + 2), ReadField(r, off + 4), ReadField(r, off + 6)>>

\* #[repr(C)] VirtioBlkReqNode as the guest lays it out: req_type u32,
\* reserved u32, sector usize (little-endian, word by word)
HeaderBytes(req_type, sector) ==
    <<[len |-> 4, val |-> req_type], [len |-> 4, val |-> 0],
      [len |-> 2, val |-> sector[1]], [len |-> 2, val |-> sector[2]],
      [len |-> 2, val |-> sector[3]], [len |-> 2, val |-> sector[4]]>>

(* extern "C" vm_ipa2pa: 0 is the invalid sentinel *)
MappedIpa == { GUEST_BASE + i : i \in DescIdx }
vm_ipa2pa(gpa) == IF gpa \in MappedIpa THEN gpa + HOST_OFFSET ELSE 0
HostAddrs == { vm_ipa2pa(a) : a \in MappedIpa }

(* usize arithmetic of process_blk_requests and FakeBlkDevice.  A usize is   *)
(* 64 bits wide on riscv64; it is kept as four 16-bit words, the lowest      *)
(* first, and the arithmetic wraps modulo 2^64.                              *)
USIZE_WORD == 2^16

\* n as usize, for 0 <= n < 2^31
usize_from(n) == <<n % USIZE_WORD, n \div USIZE_WORD, 0, 0>>

\* a as an integer, for a < 2^31
IntOfUsize(a) == a[1] + a[2] * USIZE_WORD

\* blk.rs:383 req.sector * SECTOR_BSIZE: a usize times a small constant
MulUsize(a, b) ==
    LET p1 == a[1] * b
        p2 == a[2] * b + (p1 \div USIZE_WORD)
        p3 == a[3] * b + (p2 \div USIZE_WORD)
        p4 == a[4] * b + (p3 \div USIZE_WORD)
    IN <<p1 % USIZE_WORD, p2 % USIZE_WORD, p3 % USIZE_WORD, p4 % USIZE_WORD>>

\* blk.rs:348, 361, 391 a usize plus a length (u32 as usize, below 2^31 here)
AddUsize(a, n) ==
    LET b  == usize_from(n)
        s1 == a[1] + b[1]
        s2 == a[2] + b[2] + (s1 \div USIZE_WORD)
        s3 == a[3] + b[3] + (s2 \div USIZE_WORD)
        s4 == a[4] + b[4] + (s3 \div USIZE_WORD)
    IN <<s1 % USIZE_WORD, s2 % USIZE_WORD, s3 % USIZE_WORD, s4 % USIZE_WORD>>

\* a >= n for a usize a and 0 <= n < 2^31
GeUsize(a, n) ==
    \/ a[4] # 0
    \/ a[3] # 0
    \/ a[2] > n \div USIZE_WORD
    \/ (a[2] = n \div USIZE_WORD /\ a[1] >= n % USIZE_WORD)

-----------------------------------------------------------------------------
(* Virtq: the ring primitives used by the handler *)

desc_flags(idx)       == desc_table[idx].flags
desc_addr(idx)        == desc_table[idx].addr
desc_len(idx)         == desc_table[idx].len
desc_next(idx)        == desc_table[idx].next
desc_has_next(idx)    == (desc_table[idx].flags % 2) = 1
desc_is_writable(idx) == ((desc_table[idx].flags \div VIRTQ_DESC_F_WRITE) % 2) = 1
vq_avail_idx          == Len(avail_ring)
check_avail_idx(idx)  == last_avail_idx = idx

\* pop_avail_desc_idx(avail_idx): [opt, last] after the call
pop_avail_desc_idx(idx) ==
    IF idx = last_avail_idx
    THEN [opt |-> None, last |-> last_avail_idx]
    ELSE [opt |-> avail_ring[last_avail_idx + 1], last |-> last_avail_idx + 1]

\* update_used_ring(len, desc_chain_head_idx) fails when the used ring has no
\* room left; [ok, ring] after the call
update_used_ring(len, head) ==
    IF Len(used_ring) >= vq_num
    THEN [ok |-> FALSE, ring |-> used_ring]
    ELSE [ok |-> TRUE, ring |-> Append(used_ring, [id |-> head, len |-> len])]

-----------------------------------------------------------------------------
(* virtio_blk_notify_handler, blk.rs:200-336 *)

\* blk.rs:179-189 VirtioBlkReqNode::default(), with the head index of blk.rs:236
NewReqNode_nohead(head) ==
    [req_type |-> 0, sector |-> usize_from(0), desc_chain_head_idx |-> 0,
     iov |-> <<>>, iov_sum_up |-> 0, iov_total |-> 0]

NewReqNode(head) ==
    [req_type |-> 0, sector |-> usize_from(0), desc_chain_head_idx |-> head,
     iov |-> <<>>, iov_sum_up |-> 0, iov_total |-> 0]

ParseFail == [ok |-> FALSE]

\* blk.rs:270 (vq.desc_flags(idx) & VIRTQ_DESC_F_WRITE) as u32 >> 1
AndWrite(flags) == ((flags \div VIRTQ_DESC_F_WRITE) % 2) * VIRTQ_DESC_F_WRITE
WriteBit_inverted(idx) == 1 - (AndWrite(desc_flags(idx)) \div 2)

WriteBit(idx) == AndWrite(desc_flags(idx)) \div 2

\* blk.rs:310-314
StatusFor_flushok(req_type) ==
    IF req_type \notin {VIRTIO_BLK_T_IN, VIRTIO_BLK_T_OUT, VIRTIO_BLK_T_FLUSH,
                        VIRTIO_BLK_T_GET_ID}
    THEN VIRTIO_BLK_S_UNSUPP ELSE VIRTIO_BLK_S_OK

StatusFor(req_type) ==
    IF req_type > 1 /\ req_type # VIRTIO_BLK_T_GET_ID
    THEN VIRTIO_BLK_S_UNSUPP ELSE VIRTIO_BLK_S_OK

\* blk.rs:244-318 the walk over one descriptor chain
RECURSIVE WalkChain(_, _, _)
WalkChain(idx, head, node) ==
    IF desc_has_next(idx)
    THEN IF head
         THEN IF desc_is_writable(idx) THEN ParseFail
              ELSE LET vreq_addr == vm_ipa2pa(desc_addr(idx)) IN
                   IF vreq_addr = 0 THEN ParseFail
                   ELSE WalkChain(desc_next(idx), FALSE,
                                  [node EXCEPT !.req_type = ReadField(mem[vreq_addr], 0),
                                               !.sector = ReadU64(mem[vreq_addr], 8)])
         ELSE IF WriteBit(idx) = node.req_type THEN ParseFail
              ELSE LET data_bg == vm_ipa2pa(desc_addr(idx)) IN
                   IF data_bg = 0 THEN ParseFail
                   ELSE WalkChain(desc_next(idx), FALSE,
                                  [node EXCEPT !.iov = Append(@, [data_bg |-> data_bg,
                                                                   len |-> desc_len(idx)]),
                                               !.iov_sum_up = @ + desc_len(idx)])
    ELSE IF ~desc_is_writable(idx) THEN ParseFail
         ELSE LET vstatus_addr == vm_ipa2pa(desc_addr(idx)) IN
              IF vstatus_addr = 0 THEN ParseFail
              ELSE [ok |-> TRUE, node |-> node, vstatus_addr |-> vstatus_addr,
                    vstatus |-> StatusFor(node.req_type)]

\* blk.rs:207
QueueReady_always == TRUE

QueueReady == ready # 0

\* blk.rs:324 the index handed to pop_avail_desc_idx inside the loop
LoopPopArg_fresh == vq_avail_idx

LoopPopArg == avail_idx

\* blk.rs:205-221 snapshot, readiness check, first pop
notify_entry ==
    /\ ~panicked
    /\ npc = "idle"
    /\ kicks > 0
    /\ kicks' = kicks - 1
    /\ avail_idx' = vq_avail_idx
    /\ IF ~QueueReady
       THEN /\ nret' = RetBool(FALSE)
            /\ UNCHANGED <<npc, req_list, next_desc_idx_opt, last_avail_idx>>
       ELSE /\ req_list' = <<>>
            /\ LET p == pop_avail_desc_idx(vq_avail_idx) IN
                 /\ next_desc_idx_opt' = p.opt
                 /\ last_avail_idx' = p.last
            /\ npc' = "loop"
            /\ nret' = NoRet
    /\ UNCHANGED <<ready, avail_ring, used_flags, used_ring, desc_table, mem,
                   BLOCK_DEVICE, dpc, panicked>>
    /\ UNCHANGED vq_num
    /\ UNCHANGED dropped
    /\ UNCHANGED emuVars
    /\ UNCHANGED vcpuVars

\* blk.rs:225-227 loop test, disable_notify
notify_loop ==
    /\ ~panicked
    /\ npc = "loop"
    /\ IF next_desc_idx_opt = None
       THEN npc' = "process" /\ UNCHANGED used_flags
       ELSE npc' = "check" /\ used_flags' = VRING_USED_F_NO_NOTIFY
    /\ UNCHANGED <<ready, avail_ring, last_avail_idx, used_ring, desc_table, mem,
                   BLOCK_DEVICE, avail_idx, next_desc_idx_opt, req_list, nret, kicks,
                   dpc, panicked>>
    /\ UNCHANGED vq_num
    /\ UNCHANGED dropped
    /\ UNCHANGED emuVars
    /\ UNCHANGED vcpuVars

\* blk.rs:228-231 enable_notify once the snapshot is reached
notify_check ==
    /\ ~panicked
    /\ npc = "check"
    /\ used_flags' = IF check_avail_idx(avail_idx) THEN 0 ELSE used_flags
    /\ npc' = "parse"
    /\ UNCHANGED <<ready, avail_ring, last_avail_idx, used_ring, desc_table, mem,
                   BLOCK_DEVICE, avail_idx, next_desc_idx_opt, req_list, nret, kicks,
                   dpc, panicked>>
    /\ UNCHANGED vq_num
    /\ UNCHANGED dropped
    /\ UNCHANGED emuVars
    /\ UNCHANGED vcpuVars

-----------------------------------------------------------------------------
(* FakeBlkDevice and process_blk_requests, blk.rs:346-413 *)

\* blk.rs:348, blk.rs:361 the capacity check of blk_read / blk_write
ExceedsDevice_strict(offset, count) ==
    GeUsize(AddUsize(offset, count), SECTOR_BSIZE * SECTORS_NUM + 1)

ExceedsDevice(offset, count) ==
    GeUsize(AddUsize(offset, count), SECTOR_BSIZE * SECTORS_NUM)

\* blk.rs:353, blk.rs:367 BLOCK_DEVICE[offset] is a checked index
IndexPanics(offset) == GeUsize(offset, SECTOR_BSIZE * SECTORS_NUM)

\* blk.rs:347-358 blk_read on the state st = [dev, mem, panic]
blk_read_abort(st, offset, count, buf) ==
    IF ExceedsDevice(offset, count) THEN [st EXCEPT !.panic = TRUE]
    ELSE [st EXCEPT !.mem[buf] = CopyInto(@, 0, Slice(st.dev, IntOfUsize(offset), count))]

blk_read(st, offset, count, buf) ==
    IF ExceedsDevice(offset, count) THEN st
    ELSE IF IndexPanics(offset) THEN [st EXCEPT !.panic = TRUE]
    ELSE [st EXCEPT !.mem[buf] = CopyInto(@, 0, Slice(st.dev, IntOfUsize(offset), count))]

\* blk.rs:360-371 blk_write
blk_write(st, offset, count, buf) ==
    IF ExceedsDevice(offset, count) THEN st
    ELSE IF IndexPanics(offset) THEN [st EXCEPT !.panic = TRUE]
    ELSE [st EXCEPT !.dev = CopyInto(@, IntOfUsize(offset), Slice(st.mem[buf], 0, count))]

\* blk.rs:384-392 the loop over the I/O vector of one IN / OUT request
RECURSIVE IovLoop(_, _, _, _)
IovLoop(req, i, offset, st) ==
    IF i > Len(req.iov) \/ st.panic THEN st
    ELSE LET aiov == req.iov[i] IN
         IF req.req_type = VIRTIO_BLK_T_IN
         THEN IovLoop(req, i + 1, AddUsize(offset, aiov.len),
                      [blk_read(st, offset, aiov.len, aiov.data_bg)
                          EXCEPT !.write_len = @ + aiov.len])
         ELSE IovLoop(req, i + 1, AddUsize(offset, aiov.len),
                      blk_write(st, offset, aiov.len, aiov.data_bg))

\* blk.rs:399-401 the 20 bytes read from the 12-byte literal: the last 8 lie
\* behind the literal
GetIdBytes(oob) ==
    <<[len |-> DEVICE_NAME_LEN, val |-> NAME_BYTE],
      [len |-> GET_ID_COPY_LEN - DEVICE_NAME_LEN, val |-> oob]>>

\* blk.rs:380-407 execute one request on st
ExecRequest(req, st, oob) ==
    IF req.req_type \in {VIRTIO_BLK_T_IN, VIRTIO_BLK_T_OUT}
    THEN IovLoop(req, 1, MulUsize(req.sector, SECTOR_BSIZE), st)
    ELSE IF req.req_type = VIRTIO_BLK_T_FLUSH THEN st
    ELSE IF req.req_type = VIRTIO_BLK_T_GET_ID
    THEN IF req.iov = <<>> THEN [st EXCEPT !.panic = TRUE]
         ELSE [st EXCEPT !.mem[req.iov[1].data_bg] = CopyInto(@, 0, GetIdBytes(oob))]
    ELSE [st EXCEPT !.panic = TRUE]

\* blk.rs:244-306 the `return false` of the chain walk touch neither the queue
\* nor the requests parsed before: the consumer index stays where the pops
\* left it
abort_last_avail_idx_rewind == last_avail_idx - (Len(req_list) + 1)

abort_last_avail_idx == last_avail_idx

\* the positions popped by the notification in progress and not completed:
\* one per request in req_list, and the chain being parsed
PoppedSoFar ==
    LET n == Len(req_list) + (IF next_desc_idx_opt = None THEN 0 ELSE 1)
    IN (last_avail_idx - n + 1)..last_avail_idx

\* blk.rs:233-324 parse one chain, write its status byte, pop the next head
notify_parse_eager ==
    /\ ~panicked
    /\ npc = "parse"
    /\ LET w == WalkChain(next_desc_idx_opt, TRUE, NewReqNode(next_desc_idx_opt)) IN
       IF ~w.ok
       THEN /\ nret' = RetBool(FALSE)
            /\ npc' = "idle"
            /\ next_desc_idx_opt' = None
            /\ dropped' = dropped \cup PoppedSoFar
            /\ UNCHANGED <<mem, last_avail_idx, BLOCK_DEVICE, used_ring>>
       ELSE LET st == ExecRequest(w.node,
                         [dev |-> BLOCK_DEVICE,
                          mem |-> [mem EXCEPT ![w.vstatus_addr] =
                                      CopyInto(@, 0, Fill(1, w.vstatus))],
                          panic |-> FALSE, write_len |-> 0],
                         CHOOSE o \in OOB_BYTES : TRUE)
            IN /\ mem' = st.mem
               /\ BLOCK_DEVICE' = st.dev
               /\ used_ring' = update_used_ring(st.write_len, next_desc_idx_opt).ring
               /\ LET p == pop_avail_desc_idx(LoopPopArg) IN
                    /\ next_desc_idx_opt' = p.opt
                    /\ last_avail_idx' = p.last
               /\ npc' = "loop"
               /\ UNCHANGED <<nret, dropped>>
    /\ UNCHANGED <<ready, avail_ring, used_flags, desc_table, req_list,
                   avail_idx, kicks, dpc, panicked>>
    /\ UNCHANGED vq_num
    /\ UNCHANGED emuVars
    /\ UNCHANGED vcpuVars

notify_parse ==
    /\ ~panicked
    /\ npc = "parse"
    /\ LET w == WalkChain(next_desc_idx_opt, TRUE, NewReqNode(next_desc_idx_opt)) IN
       IF ~w.ok
       THEN /\ nret' = RetBool(FALSE)
            /\ npc' = "idle"
            /\ req_list' = <<>>
            /\ next_desc_idx_opt' = None
            /\ dropped' = dropped \cup PoppedSoFar
            /\ last_avail_idx' = abort_last_avail_idx
            /\ UNCHANGED mem
       ELSE /\ mem' = [mem EXCEPT ![w.vstatus_addr] = CopyInto(@, 0, Fill(1, w.vstatus))]
            /\ req_list' = Append(req_list, [w.node EXCEPT !.iov_total = w.node.iov_sum_up])
            /\ LET p == pop_avail_desc_idx(LoopPopArg) IN
                 /\ next_desc_idx_opt' = p.opt
                 /\ last_avail_idx' = p.last
            /\ npc' = "loop"
            /\ UNCHANGED <<nret, dropped>>
    /\ UNCHANGED <<ready, avail_ring, used_flags, used_ring, desc_table,
                   BLOCK_DEVICE, avail_idx, kicks, dpc, panicked>>
    /\ UNCHANGED vq_num
    /\ UNCHANGED emuVars
    /\ UNCHANGED vcpuVars

\* blk.rs:408-410, blk.rs:326-329 a failed update_used_ring ends the run
StopOnUsedFail_ignore(ok) == FALSE

StopOnUsedFail(ok) == ~ok

\* blk.rs:326-335 with one iteration of the loop of process_blk_requests
\* (blk.rs:379-411): execute the next request and post its completion
notify_process(oob) ==
    /\ ~panicked
    /\ npc = "process"
    /\ IF req_list = <<>>
       THEN /\ nret' = RetBool(TRUE)
            /\ npc' = "idle"
            /\ UNCHANGED <<req_list, mem, BLOCK_DEVICE, used_ring, panicked, dropped>>
       ELSE LET req == Head(req_list)
                st  == ExecRequest(req, [dev |-> BLOCK_DEVICE, mem |-> mem,
                                         panic |-> FALSE, write_len |-> 0], oob)
            IN IF st.panic
               THEN /\ panicked' = TRUE
                    /\ UNCHANGED <<req_list, mem, BLOCK_DEVICE, used_ring, npc, nret, dropped>>
               ELSE LET u == update_used_ring(st.write_len, req.desc_chain_head_idx) IN
                    /\ mem' = st.mem
                    /\ BLOCK_DEVICE' = st.dev
                    /\ used_ring' = u.ring
                    /\ IF StopOnUsedFail(u.ok)
                       THEN /\ nret' = RetBool(FALSE)
                            /\ npc' = "idle"
                            /\ req_list' = <<>>
                            /\ dropped' = dropped \cup PoppedSoFar
                       ELSE /\ req_list' = Tail(req_list)
                            /\ UNCHANGED <<npc, nret, dropped>>
                    /\ UNCHANGED panicked
    /\ UNCHANGED <<ready, avail_ring, last_avail_idx, used_flags, desc_table,
                   avail_idx, next_desc_idx_opt, kicks, dpc>>
    /\ UNCHANGED vq_num
    /\ UNCHANGED emuVars
    /\ UNCHANGED vcpuVars

-----------------------------------------------------------------------------
(* The guest driver.  A chain is described by its request type, its sector  *)
(* and its descriptors [w, mapped, len, role]; the driver writes them into  *)
(* the descriptor slots of the chain and fills the buffers.                 *)

Desc(role, w, mapped, len) == [role |-> role, w |-> w, mapped |-> mapped, len |-> len]

HdrLen == 16   \* size of the request header read by the device

\* a chain with every part given
Chain(t, s, hw, hm, datas, tw, tm) ==
    [t |-> t, s |-> usize_from(s),
     descs |-> <<Desc("hdr", hw, hm, HdrLen)>> \o datas \o <<Desc("status", tw, tm, 1)>>]

\* a data descriptor as the request type asks for it
GoodData(t, len) == Desc(IF t = VIRTIO_BLK_T_OUT THEN "out" ELSE "in",
                         t # VIRTIO_BLK_T_OUT, TRUE, len)

DataLens == {SECTOR_BSIZE, 2 * SECTOR_BSIZE}
LenSeqs  == UNION { [1..n -> DataLens] : n \in 1..MaxData }
Sectors  == {0, SECTORS_NUM - 2, SECTORS_NUM - 1}
IoTypes  == {VIRTIO_BLK_T_IN, VIRTIO_BLK_T_OUT}

IoChain(t, s, lens) ==
    Chain(t, s, FALSE, TRUE, [j \in 1..Len(lens) |-> GoodData(t, lens[j])], TRUE, TRUE)

WellFormedIo == { IoChain(t, s, lens) : t \in IoTypes, s \in Sectors, lens \in LenSeqs }

\* sectors a guest can write into the 64-bit field of the header: the first
\* and the last of the device, the sector 2^55 whose byte offset wraps to 0,
\* and the sector 2^55 - 1 whose byte offset is 2^64 - 512
WrapSectors ==
    { usize_from(0), usize_from(SECTORS_NUM - 1),
      <<0, 0, 0, USIZE_WORD \div SECTOR_BSIZE>>,
      <<USIZE_WORD - 1, USIZE_WORD - 1, USIZE_WORD - 1,
        (USIZE_WORD \div SECTOR_BSIZE) - 1>> }

WrapChains ==
    { [IoChain(t, 0, lens) EXCEPT !.s = sector] :
         t \in IoTypes, sector \in WrapSectors, lens \in LenSeqs }

\* requests without data: FLUSH, GET_ID and a type the device does not know
NoDataChains ==
    { Chain(t, 0, FALSE, TRUE, <<>>, TRUE, TRUE) :
         t \in {VIRTIO_BLK_T_FLUSH, VIRTIO_BLK_T_GET_ID, 2} }

GetIdChain ==
    Chain(VIRTIO_BLK_T_GET_ID, 0, FALSE, TRUE,
          <<GoodData(VIRTIO_BLK_T_GET_ID, SECTOR_BSIZE)>>, TRUE, TRUE)

\* one protocol violation in an otherwise well-formed one-sector request
Malformed ==
    UNION { { Chain(t, 0, TRUE, TRUE, <<GoodData(t, SECTOR_BSIZE)>>, TRUE, TRUE),
              Chain(t, 0, FALSE, FALSE, <<GoodData(t, SECTOR_BSIZE)>>, TRUE, TRUE),
              Chain(t, 0, FALSE, TRUE,
                    <<[GoodData(t, SECTOR_BSIZE) EXCEPT !.w = ~@]>>, TRUE, TRUE),
              Chain(t, 0, FALSE, TRUE,
                    <<[GoodData(t, SECTOR_BSIZE) EXCEPT !.mapped = FALSE]>>, TRUE, TRUE),
              Chain(t, 0, FALSE, TRUE, <<GoodData(t, SECTOR_BSIZE)>>, FALSE, TRUE),
              Chain(t, 0, FALSE, TRUE, <<GoodData(t, SECTOR_BSIZE)>>, TRUE, FALSE) } :
            t \in IoTypes }

\* chains of one descriptor, and a writable head followed by the status only
ShortChains ==
    { [t |-> 0, s |-> usize_from(0), descs |-> <<Desc("status", TRUE, TRUE, 1)>>],
      [t |-> 0, s |-> usize_from(0), descs |-> <<Desc("hdr", FALSE, TRUE, HdrLen)>>],
      Chain(VIRTIO_BLK_T_IN, 0, TRUE, TRUE, <<>>, TRUE, TRUE) }

ChainUniverse == WellFormedIo \cup NoDataChains \cup {GetIdChain} \cup Malformed \cup ShortChains

\* chains published while a drain may be running
RaceChains == { IoChain(VIRTIO_BLK_T_IN, 0, <<SECTOR_BSIZE>>),
                Chain(VIRTIO_BLK_T_FLUSH, 0, FALSE, TRUE, <<>>, TRUE, TRUE) }

\* what the driver puts into the buffer of descriptor idx
OutBytes(idx, len) ==
    IF len > SECTOR_BSIZE
    THEN <<[len |-> SECTOR_BSIZE, val |-> 10 * idx + 1],
           [len |-> len - SECTOR_BSIZE, val |-> 10 * idx + 2]>>
    ELSE Fill(len, 10 * idx + 1)

BufferBytes(ch, d, idx) ==
    IF d.role = "hdr" THEN HeaderBytes(ch.t, ch.s)
    ELSE IF d.role = "out" THEN OutBytes(idx, d.len)
    ELSE IF d.role = "in" THEN Fill(d.len, JUNK_BYTE)
    ELSE Fill(d.len, STATUS_UNSET)

DescAddr(d, idx) == IF d.mapped THEN GUEST_BASE + idx ELSE UNMAPPED_IPA

\* write the chain into the slots starting at base, fill its buffers and
\* put its head into the available ring
PublishChain(ch, base) ==
    LET n == Len(ch.descs)
        InChain(i) == i >= base /\ i < base + n
    IN /\ desc_table' =
             [i \in DescIdx |->
                 IF InChain(i)
                 THEN LET d == ch.descs[i - base + 1] IN
                      [addr  |-> DescAddr(d, i),
                       len   |-> d.len,
                       flags |-> (IF i < base + n - 1 THEN VIRTQ_DESC_F_NEXT ELSE 0)
                                 + (IF d.w THEN VIRTQ_DESC_F_WRITE ELSE 0),
                       next  |-> IF i < base + n - 1 THEN i + 1 ELSE 0]
                 ELSE desc_table[i]]
       /\ mem' = [a \in HostAddrs |->
                    LET i == a - HOST_OFFSET - GUEST_BASE IN
                    IF InChain(i) /\ ch.descs[i - base + 1].mapped
                    THEN BufferBytes(ch, ch.descs[i - base + 1], i)
                    ELSE mem[a]]
       /\ avail_ring' = Append(avail_ring, base)

\* queue sizes the guest may configure
QueueNums == {1, MaxChains}

\* the guest sets the queue size and marks the queue ready
driver_set_ready(num) ==
    /\ ~panicked
    /\ ready = 0
    /\ ready' = 1
    /\ vq_num' = num
    /\ UNCHANGED <<avail_ring, last_avail_idx, used_flags, used_ring, desc_table, mem,
                   BLOCK_DEVICE, npc, avail_idx, next_desc_idx_opt, req_list, nret,
                   kicks, dpc, panicked>>
    /\ UNCHANGED dropped
    /\ UNCHANGED emuVars
    /\ UNCHANGED vcpuVars

\* the driver publishes a chain between two notifications
driver_publish(ch) ==
    /\ ~panicked
    /\ npc = "idle" /\ kicks = 0
    /\ Len(avail_ring) < MaxChains
    /\ PublishChain(ch, Len(avail_ring) * ChainSlots)
    /\ UNCHANGED <<ready, last_avail_idx, used_flags, used_ring, BLOCK_DEVICE, npc,
                   avail_idx, next_desc_idx_opt, req_list, nret, kicks, dpc, panicked>>
    /\ UNCHANGED vq_num
    /\ UNCHANGED dropped
    /\ UNCHANGED emuVars
    /\ UNCHANGED vcpuVars

\* the driver writes the queue-notify register
driver_kick ==
    /\ ~panicked
    /\ npc = "idle" /\ kicks = 0
    /\ kicks' = 1
    /\ UNCHANGED <<ready, avail_ring, last_avail_idx, used_flags, used_ring, desc_table,
                   mem, BLOCK_DEVICE, npc, avail_idx, next_desc_idx_opt, req_list, nret,
                   dpc, panicked>>
    /\ UNCHANGED vq_num
    /\ UNCHANGED dropped
    /\ UNCHANGED emuVars
    /\ UNCHANGED vcpuVars

\* a driver on another vCPU publishes a chain at any time ...
race_publish(ch) ==
    /\ ~panicked
    /\ ready = 1
    /\ dpc = "idle"
    /\ Len(avail_ring) < MaxChains
    /\ PublishChain(ch, Len(avail_ring) * ChainSlots)
    /\ dpc' = "published"
    /\ UNCHANGED <<ready, last_avail_idx, used_flags, used_ring, BLOCK_DEVICE, npc,
                   avail_idx, next_desc_idx_opt, req_list, nret, kicks, panicked>>
    /\ UNCHANGED vq_num
    /\ UNCHANGED dropped
    /\ UNCHANGED emuVars
    /\ UNCHANGED vcpuVars

\* ... and kicks only if it then sees notifications enabled
race_notify ==
    /\ ~panicked
    /\ dpc = "published"
    /\ dpc' = "idle"
    /\ kicks' = IF used_flags % 2 = VRING_USED_F_NO_NOTIFY THEN kicks ELSE kicks + 1
    /\ UNCHANGED <<ready, avail_ring, last_avail_idx, used_flags, used_ring, desc_table,
                   mem, BLOCK_DEVICE, npc, avail_idx, next_desc_idx_opt, req_list, nret,
                   panicked>>
    /\ UNCHANGED vq_num
    /\ UNCHANGED dropped
    /\ UNCHANGED emuVars
    /\ UNCHANGED vcpuVars

BlkInit ==
    /\ ready = 0
    /\ avail_ring = <<>>
    /\ last_avail_idx = 0
    /\ used_flags = 0
    /\ used_ring = <<>>
    /\ vq_num = 0
    /\ desc_table = [i \in DescIdx |-> [addr |-> 0, len |-> 0, flags |-> 0, next |-> 0]]
    /\ mem = [a \in HostAddrs |-> <<>>]
    /\ BLOCK_DEVICE = Fill(SECTOR_BSIZE * SECTORS_NUM, 0)
    /\ npc = "idle"
    /\ avail_idx = 0
    /\ next_desc_idx_opt = None
    /\ req_list = <<>>
    /\ nret = NoRet
    /\ dropped = {}
    /\ kicks = 0
    /\ dpc = "idle"

-----------------------------------------------------------------------------
(* The vCPU, src/src/arch/riscv/vcpu.rs *)

U64_SIZE == 8     \* size_of::<u64>()
GprSlots == 32    \* GeneralPurposeRegisters: one u64 per architectural register number
GprIndex == 1..(GprSlots - 1)   \* the registers with a name: ra .. t6

(* a #[repr(C)] struct is the list of its fields, in order, with their sizes *)
U64Field(name) == [name |-> name, size |-> U64_SIZE]

RECURSIVE size_of(_)
size_of(layout) == IF layout = <<>> THEN 0 ELSE Head(layout).size + size_of(Tail(layout))

RECURSIVE offset_of(_, _)
offset_of(layout, field) ==
    IF Head(layout).name = field THEN 0
    ELSE Head(layout).size + offset_of(Tail(layout), field)

HypervisorCpuState ==
    <<[name |-> "gprs", size |-> GprSlots * U64_SIZE], U64Field("sstatus"),
      U64Field("hstatus"), U64Field("scounteren"), U64Field("stvec"),
      U64Field("sscratch")>>

GuestCpuState ==
    <<[name |-> "gprs", size |-> GprSlots * U64_SIZE], U64Field("sstatus"),
      U64Field("hstatus"), U64Field("scounteren"), U64Field("sepc")>>

GuestVsCsrs ==
    <<U64Field("htimedelta"), U64Field("vsstatus"), U64Field("vsie"), U64Field("vstvec"),
      U64Field("vsscratch"), U64Field("vsepc"), U64Field("vscause"), U64Field("vstval"),
      U64Field("vsatp"), U64Field("vstimecmp")>>

GuestVirtualHsCsrs == <<U64Field("hie"), U64Field("hgeie"), U64Field("hgatp")>>

VmCpuTrapState ==
    <<U64Field("scause"), U64Field("stval"), U64Field("htval"), U64Field("htinst")>>

VmCpuRegisters ==
    <<[name |-> "hyp_regs", size |-> size_of(HypervisorCpuState)],
      [name |-> "guest_regs", size |-> size_of(GuestCpuState)],
      [name |-> "vs_csrs", size |-> size_of(GuestVsCsrs)],
      [name |-> "virtual_hs_csrs", size |-> size_of(GuestVirtualHsCsrs)],
      [name |-> "trap_csrs", size |-> size_of(VmCpuTrapState)]>>

\* vcpu.rs:97-101
hyp_gpr_offset(index) ==
    offset_of(VmCpuRegisters, "hyp_regs") + offset_of(HypervisorCpuState, "gprs")
       + index * U64_SIZE

\* vcpu.rs:104-108
guest_gpr_offset_hypbase(index) ==
    offset_of(VmCpuRegisters, "hyp_regs") + offset_of(GuestCpuState, "gprs")
       + index * U64_SIZE

guest_gpr_offset(index) ==
    offset_of(VmCpuRegisters, "guest_regs") + offset_of(GuestCpuState, "gprs")
       + index * U64_SIZE

(* #[derive(Default)]: every field zero *)
DefaultOf(layout) ==
    [f \in { layout[i].name : i \in 1..Len(layout) } |->
        IF f = "gprs" THEN [i \in 0..(GprSlots - 1) |-> 0] ELSE 0]

VmCpuRegisters_default ==
    [hyp_regs |-> DefaultOf(HypervisorCpuState),
     guest_regs |-> DefaultOf(GuestCpuState),
     vs_csrs |-> DefaultOf(GuestVsCsrs),
     virtual_hs_csrs |-> DefaultOf(GuestVirtualHsCsrs),
     trap_csrs |-> DefaultOf(VmCpuTrapState)]

(* bits of the status registers (riscv::register) *)
HSTATUS_SPV == 128   \* hstatus bit 7: previous virtualization mode
SSTATUS_SPP == 256   \* sstatus bit 8: previous privilege, 1 = supervisor
HSTATUS_GVA == 64    \* hstatus bit 6
SSTATUS_SIE == 2     \* sstatus bit 1

\* set_spv(true), set_spp(SPP::Supervisor): set one bit of a register value
SetBit(value, mask) == IF (value \div mask) % 2 = 1 THEN value ELSE value + mask

(* values the hardware registers may hold when create is called *)
HwHstatusValues == {0, HSTATUS_SPV, HSTATUS_GVA, HSTATUS_GVA + HSTATUS_SPV}
HwSstatusValues == {0, SSTATUS_SPP, SSTATUS_SIE, SSTATUS_SIE + SSTATUS_SPP}

(* what a guest exit leaves in scause, stval, htval, htinst *)
TrapCauses ==
    { [scause |-> 10, stval |-> 0, htval |-> 0, htinst |-> 0],
      [scause |-> 21, stval |-> 4096, htval |-> 1024, htinst |-> 0],
      [scause |-> 23, stval |-> 4100, htval |-> 1025, htinst |-> 3] }

NoTrap == [scause |-> 0, stval |-> 0, htval |-> 0, htinst |-> 0]

Sepcs == {0, 4}   \* values of the saved guest program counter

NoOffsets == [index |-> 0, hyp |-> 0, guest |-> 0]

\* vcpu.rs:197-264 the offsets handed to guest.S are evaluated when the crate
\* is built
eval_gpr_offsets(index) ==
    /\ vpc = "none"
    /\ gpr_off' = [index |-> index, hyp |-> hyp_gpr_offset(index),
                   guest |-> guest_gpr_offset(index)]
    /\ UNCHANGED <<csr, regs, vpc, owed, seen>>
    /\ UNCHANGED <<emuVars, blkVars, panicked>>

\* vcpu.rs:271-295 VCpu::create
VCpu_create ==
    /\ vpc = "none"
    /\ regs' = [VmCpuRegisters_default EXCEPT
                   !.guest_regs.hstatus = SetBit(csr.hstatus, HSTATUS_SPV),
                   !.guest_regs.sstatus = SetBit(csr.sstatus, SSTATUS_SPP)]
    /\ vpc' = "created"
    /\ UNCHANGED <<csr, owed, seen, gpr_off>>
    /\ UNCHANGED <<emuVars, blkVars, panicked>>

\* vcpu.rs:297-303 run is called, or the loop comes round: _run_guest(regs)
VCpu_run_guest ==
    /\ vpc \in {"created", "loop"}
    /\ vpc' = "guest"
    /\ UNCHANGED <<csr, regs, owed, seen, gpr_off>>
    /\ UNCHANGED <<emuVars, blkVars, panicked>>

\* the guest traps: the hart writes the trap registers and _run_guest
\* returns with the guest's program counter saved
guest_trap(cause, sepc) ==
    /\ vpc = "guest"
    /\ csr' = [csr EXCEPT !.scause = cause.scause, !.stval = cause.stval,
                        !.htval = cause.htval, !.htinst = cause.htinst]
    /\ regs' = [regs EXCEPT !.guest_regs.sepc = sepc]
    /\ owed' = owed + 1
    /\ vpc' = "exited"
    /\ UNCHANGED <<seen, gpr_off>>
    /\ UNCHANGED <<emuVars, blkVars, panicked>>

\* vcpu.rs:306-309 the four reads into trap_csrs
SavedTrap_swapped(h) ==
    [scause |-> h.scause, stval |-> h.htval, htval |-> h.stval, htinst |-> h.htinst]

SavedTrap(h) ==
    [scause |-> h.scause, stval |-> h.stval, htval |-> h.htval, htinst |-> h.htinst]

\* vcpu.rs:305-309 save off the trap information
VCpu_run_save_trap ==
    /\ vpc = "exited"
    /\ regs' = [regs EXCEPT !.trap_csrs = SavedTrap(csr)]
    /\ vpc' = "handler"
    /\ UNCHANGED <<csr, owed, seen, gpr_off>>
    /\ UNCHANGED <<emuVars, blkVars, panicked>>

\* vcpu.rs:298-312 the body is a loop without break or return: after the
\* handler the next iteration begins
AfterHandler_return == "returned"

AfterHandler == "loop"

\* vcpu.rs:311 H::vmexit_handler(self): the handler reads trap_csrs, may
\* change the saved state, and returns
vmexit_handler(sepc) ==
    /\ vpc = "handler"
    /\ seen' = regs.trap_csrs
    /\ owed' = owed - 1
    /\ regs' = [regs EXCEPT !.guest_regs.sepc = sepc]
    /\ vpc' = AfterHandler
    /\ UNCHANGED <<csr, gpr_off>>
    /\ UNCHANGED <<emuVars, blkVars, panicked>>

\* no vCPU exists yet; the status registers hold hs and ss
VcpuInit(hs, ss) ==
    /\ csr = [hstatus |-> hs, sstatus |-> ss, scause |-> 0, stval |-> 0, htval |-> 0,
             htinst |-> 0]
    /\ regs = VmCpuRegisters_default
    /\ vpc = "none"
    /\ owed = 0
    /\ seen = NoTrap
    /\ gpr_off = NoOffsets

-----------------------------------------------------------------------------
(* Inputs of the registry specification: any range of the small address space *)
RegInputs ==
    { [emu_type |-> "EmuDeviceTVirtioBlk", dev_id |-> d[1], handler |-> d[2],
       address |-> a, size |-> s] : d \in Devices, a \in 0..MaxAddr, s \in 1..MaxSize }

EmuInit ==
    /\ EMU_DEVS_LIST = <<>>
    /\ lock = NoCore
    /\ epc = [c \in Cores |-> "idle"]
    /\ eargs = [c \in Cores |-> NoArgs]
    /\ etarget = [c \in Cores |-> NoTarget]
    /\ invoked = [c \in Cores |-> <<>>]
    /\ eret = [c \in Cores |-> NoRet]
    /\ estack = [c \in Cores |-> <<>>]

Init == EmuInit /\ BlkInit /\ panicked = FALSE /\ VcpuInit(0, 0)

Next ==
    \/ \E c \in Cores, in \in RegInputs : emu_register_dev_lock(c, in, "idle")
    \/ \E c \in Cores : emu_register_dev_check(c)
    \/ \E c \in Cores : emu_register_dev_push(c)
    \/ \E c \in Cores, a \in 0..(MaxAddr + MaxSize) : emu_handler_lock(c, a, "idle")
    \/ \E c \in Cores : emu_handler_scan(c)
    \/ \E c \in Cores, r \in BOOLEAN : emu_handler_call(c, r)

Spec == Init /\ [][Next]_vars

-----------------------------------------------------------------------------
(* Filling the registry: one core registers range after range.  The regular *)
(* ranges follow each other upwards (alternately adjacent and one cell      *)
(* apart, sizes cycling through 1..MaxSize); a probe is any range around    *)
(* the top of the table, and at most one probe device gets registered.      *)

Top(list) ==
    LET ends == { list[i].ipa + list[i].size : i \in 1..Len(list) }
    IN IF ends = {} THEN 0 ELSE CHOOSE m \in ends : \A e \in ends : e <= m

RegularInput(list) ==
    [emu_type |-> "EmuDeviceTVirtioBlk", dev_id |-> 0, handler |-> "h1",
     address |-> Top(list) + (Len(list) % 2), size |-> 1 + (Len(list) % MaxSize)]

ProbeInputs(list) ==
    IF \E i \in 1..Len(list) : list[i].id = 1 THEN {}
    ELSE { [emu_type |-> "EmuDeviceTVirtioBlk", dev_id |-> 1, handler |-> "h2",
            address |-> a, size |-> s] :
              a \in { x \in (Top(list) - 2 * MaxSize)..(Top(list) + 1) : x >= 0 },
              s \in 1..(MaxSize + 1) }

FillInputs(list) == {RegularInput(list)} \cup ProbeInputs(list)

FillNext ==
    \/ \E in \in FillInputs(EMU_DEVS_LIST) : emu_register_dev_lock(1, in, "idle")
    \/ emu_register_dev_check(1)
    \/ emu_register_dev_push(1)

SpecFill == Init /\ [][FillNext]_vars

-----------------------------------------------------------------------------
(* Handlers that use the registry: the handler run by emu_handler on core 1 *)
(* may register a device or dispatch an access itself, while the other      *)
(* cores register and dispatch.                                            *)

NestInputs == { in \in RegInputs : in.size = 1 }

NestNext ==
    \/ \E c \in Cores, in \in NestInputs : emu_register_dev_lock(c, in, "idle")
    \/ \E in \in NestInputs : emu_register_dev_lock(1, in, "emu_call")
    \/ \E c \in Cores : emu_register_dev_check(c)
    \/ \E c \in Cores : emu_register_dev_push(c)
    \/ \E c \in Cores, a \in 0..MaxAddr : emu_handler_lock(c, a, "idle")
    \/ \E a \in 0..MaxAddr : emu_handler_lock(1, a, "emu_call")
    \/ \E c \in Cores : emu_handler_scan(c)
    \/ \E c \in Cores, r \in BOOLEAN : emu_handler_call(c, r)

SpecNest == Init /\ [][NestNext]_vars

-----------------------------------------------------------------------------
(* The block device with a driver that publishes between notifications *)

NotifyNext ==
    \/ notify_entry
    \/ notify_loop
    \/ notify_check
    \/ notify_parse
    \/ \E oob \in OOB_BYTES : notify_process(oob)

BlkNext ==
    \/ \E num \in QueueNums : driver_set_ready(num)
    \/ \E ch \in ChainUniverse : driver_publish(ch)
    \/ driver_kick
    \/ NotifyNext

SpecBlk == Init /\ [][BlkNext]_vars

(* The block device with a driver that puts any 64-bit sector into its *)
(* requests                                                             *)

WrapNext ==
    \/ \E num \in QueueNums : driver_set_ready(num)
    \/ \E ch \in WrapChains : driver_publish(ch)
    \/ driver_kick
    \/ NotifyNext

SpecWrap == Init /\ [][WrapNext]_vars

(* The block device with a driver that publishes while a drain is running *)

RaceNext ==
    \/ \E num \in QueueNums : driver_set_ready(num)
    \/ \E ch \in RaceChains : race_publish(ch)
    \/ race_notify
    \/ NotifyNext

SpecRace == Init /\ [][RaceNext]_vars

-----------------------------------------------------------------------------
(* One vCPU is created and run; the status registers hold any of the values *)
(* above when create is called.                                             *)

VcpuStart ==
    /\ EmuInit /\ BlkInit /\ panicked = FALSE
    /\ \E hs \in HwHstatusValues, ss \in HwSstatusValues : VcpuInit(hs, ss)

VcpuNext ==
    \/ \E index \in GprIndex : eval_gpr_offsets(index)
    \/ VCpu_create
    \/ VCpu_run_guest
    \/ \E cause \in TrapCauses, sepc \in Sepcs : guest_trap(cause, sepc)
    \/ VCpu_run_save_trap
    \/ \E sepc \in Sepcs : vmexit_handler(sepc)

SpecVcpu == VcpuStart /\ [][VcpuNext]_vars

-----------------------------------------------------------------------------
(* Properties of the registry *)

\* the half-open ranges [ipa, ipa+size) of two entries share an address
Intersect(b1, s1, b2, s2) == b1 < b2 + s2 /\ b2 < b1 + s1

Checking(c) == epc[c] = "reg_check"

\* core c performs the capacity check and overlap scan in this step
CheckStep(c) == Checking(c) /\ ~panicked /\ (epc'[c] # "reg_check" \/ panicked')

ClashesWithTable(c) ==
    \E i \in 1..Len(EMU_DEVS_LIST) :
        Intersect(eargs[c].address, eargs[c].size,
                  EMU_DEVS_LIST[i].ipa, EMU_DEVS_LIST[i].size)

\* C1: in every reachable state of concurrent registrations and dispatches,
\* the ranges [ipa, ipa+size) of the registered entries are pairwise disjoint.
C1_RangesDisjoint ==
    \A i, j \in 1..Len(EMU_DEVS_LIST) :
        i # j => ~Intersect(EMU_DEVS_LIST[i].ipa, EMU_DEVS_LIST[i].size,
                            EMU_DEVS_LIST[j].ipa, EMU_DEVS_LIST[j].size)

\* both cores have completed a registration
C1_Witness ==
    /\ Len(EMU_DEVS_LIST) >= 2
    /\ \A c \in {1, 2} : eret[c] = RetUnit

\* C2 as stated: a registration with size >= 1 fails fatally, leaving the
\* table unchanged, exactly when its range intersects a registered range.
C2_FailsIffOverlap ==
    [][\A c \in Cores :
          CheckStep(c) =>
              /\ panicked' <=> ClashesWithTable(c)
              /\ EMU_DEVS_LIST' = EMU_DEVS_LIST]_vars

\* C2 amended: while the table holds fewer than 32 entries, a registration
\* with size >= 1 fails fatally, leaving the table unchanged, exactly when its
\* range intersects a registered range; a range that begins where another
\* ends is accepted.  With 32 entries it fails whatever the range.
C2_FailsIffOverlapOrFull ==
    [][\A c \in Cores :
          CheckStep(c) =>
              /\ panicked' <=> (ClashesWithTable(c) \/ Len(EMU_DEVS_LIST) >= 32)
              /\ EMU_DEVS_LIST' = EMU_DEVS_LIST
              /\ ~panicked' => epc'[c] = "reg_push"]_vars

\* a registration failed although its base lies outside every registered
\* range: a registered base lies inside the new range
C2_Witness ==
    /\ panicked
    /\ Len(EMU_DEVS_LIST) < 32
    /\ \E c \in Cores :
         /\ Checking(c)
         /\ \E i \in 1..Len(EMU_DEVS_LIST) :
               /\ eargs[c].address < EMU_DEVS_LIST[i].ipa
               /\ EMU_DEVS_LIST[i].ipa < eargs[c].address + eargs[c].size
         /\ \A i \in 1..Len(EMU_DEVS_LIST) :
               ~(/\ EMU_DEVS_LIST[i].ipa <= eargs[c].address
                 /\ eargs[c].address < EMU_DEVS_LIST[i].ipa + EMU_DEVS_LIST[i].size)

\* C3: from the empty registry every registration of a range disjoint from
\* the registered ones succeeds while fewer than 32 are registered, the
\* registration attempted with 32 entries fails whatever its range, and the
\* registry never holds more than 32 entries.
C3_Capacity ==
    /\ [](Len(EMU_DEVS_LIST) <= 32)
    /\ [][\A c \in Cores :
            /\ (CheckStep(c) /\ Len(EMU_DEVS_LIST) < 32 /\ ~ClashesWithTable(c))
                  => (~panicked' /\ epc'[c] = "reg_push")
            /\ (CheckStep(c) /\ Len(EMU_DEVS_LIST) = 32) => panicked']_vars

\* the 33rd registration failed although its range is free
C3_Witness ==
    /\ panicked
    /\ Len(EMU_DEVS_LIST) = 32
    /\ \E c \in Cores : Checking(c) /\ ~ClashesWithTable(c)

\* C4: a dispatch whose address lies in the range of a registered entry e
\* invokes exactly one handler, e.handler with e.id, and returns its result;
\* a dispatch whose address lies in no range invokes none and returns false.
C4_Dispatch ==
    [][\A c \in Cores :
         /\ (epc[c] = "emu_scan" /\ epc'[c] # "emu_scan") =>
               LET a == eargs[c].address
                   hits == { i \in 1..Len(EMU_DEVS_LIST) :
                               /\ EMU_DEVS_LIST[i].ipa <= a
                               /\ a < EMU_DEVS_LIST[i].ipa + EMU_DEVS_LIST[i].size }
               IN IF hits = {}
                  THEN epc'[c] = "idle" /\ eret'[c] = RetBool(FALSE) /\ invoked'[c] = <<>>
                  ELSE /\ epc'[c] = "emu_call"
                       /\ invoked'[c] = <<>>
                       /\ \A i \in hits :
                             etarget'[c] = [handler |-> EMU_DEVS_LIST[i].handler,
                                            id |-> EMU_DEVS_LIST[i].id]
         /\ (epc[c] = "emu_call" /\ epc'[c] # "emu_call") =>
               /\ Len(invoked'[c]) = 1
               /\ invoked'[c][1].handler = etarget[c].handler
               /\ invoked'[c][1].id = etarget[c].id
               /\ eret'[c] = RetBool(invoked'[c][1].result)]_vars

\* core 1 was dispatched to device 1 and got its handler's result, core 2
\* dispatched an address outside every range of a non-empty table
C4_Witness ==
    /\ epc[1] = "idle" /\ Len(invoked[1]) = 1 /\ eret[1] = RetBool(TRUE)
    /\ invoked[1][1].id = 1 /\ invoked[1][1].handler = "h2"
    /\ epc[2] = "idle" /\ invoked[2] = <<>> /\ eret[2] = RetBool(FALSE)
    /\ Len(EMU_DEVS_LIST) >= 2

-----------------------------------------------------------------------------
(* Properties of the block device *)

\* the chain with head h as the guest memory shows it
ChainType(h)   == ReadField(mem[vm_ipa2pa(desc_addr(h))], 0)
ChainSector(h) == IntOfUsize(ReadU64(mem[vm_ipa2pa(desc_addr(h))], 8))

RECURSIVE TailOf(_)
TailOf(idx) == IF desc_has_next(idx) THEN TailOf(desc_next(idx)) ELSE idx

\* the descriptors between the head and the tail
RECURSIVE DataFrom(_)
DataFrom(idx) == IF desc_has_next(idx) THEN <<idx>> \o DataFrom(desc_next(idx)) ELSE <<>>

DataDescs(h) == IF desc_has_next(h) THEN DataFrom(desc_next(h)) ELSE <<>>

RECURSIVE ConcatBuffers(_)
ConcatBuffers(idxs) ==
    IF idxs = <<>> THEN <<>>
    ELSE mem[vm_ipa2pa(desc_addr(Head(idxs)))] \o ConcatBuffers(Tail(idxs))

RECURSIVE SumLens(_)
SumLens(idxs) == IF idxs = <<>> THEN 0 ELSE desc_len(Head(idxs)) + SumLens(Tail(idxs))

Published(k) == avail_ring[k]

\* C5: a run of the handler pops, parses, executes and completes only chains
\* that were in the available ring when it took its snapshot; a chain
\* published later keeps its place in the ring and its status byte unwritten.
C5_SnapshotOnly ==
    /\ last_avail_idx <= avail_idx
    /\ \A i \in 1..Len(req_list) :
          \E k \in 1..avail_idx : req_list[i].desc_chain_head_idx = Published(k)
    /\ \A i \in 1..Len(used_ring) :
          \E k \in 1..last_avail_idx : used_ring[i].id = Published(k)
    /\ \A k \in (avail_idx + 1)..Len(avail_ring) :
          mem[vm_ipa2pa(desc_addr(TailOf(Published(k))))] = Fill(1, STATUS_UNSET)

\* the run has completed every chain of its snapshot while a chain published
\* during the drain waits in the ring
C5_Witness ==
    /\ npc = "process" /\ req_list = <<>>
    /\ avail_idx >= 1 /\ Len(used_ring) = avail_idx /\ last_avail_idx = avail_idx
    /\ Len(avail_ring) > avail_idx

\* C6: no missed notification: every published chain that has not been
\* popped belongs to the snapshot of the running drain, or a kick for it is
\* pending, or the driver is about to look at the notification flag.
C6_NoMissedNotification ==
    \A k \in (last_avail_idx + 1)..Len(avail_ring) :
        \/ npc # "idle" /\ k <= avail_idx
        \/ kicks > 0
        \/ dpc = "published"

\* C7: a chain of any length whose head descriptor is device-writable makes
\* the handler return false, and no completion is posted for it.
C7_WritableHeadRejected ==
    [][/\ (npc = "parse" /\ npc' # "parse" /\ desc_is_writable(next_desc_idx_opt))
              => (npc' = "idle" /\ nret' = RetBool(FALSE))
       /\ (Len(used_ring') > Len(used_ring))
              => ~desc_is_writable(used_ring'[Len(used_ring')].id)]_vars

\* C8: an OUT request at sector S of L bytes (S*512 + L <= 32*512) followed
\* by an IN request of L bytes at sector S fills the guest buffers with the
\* bytes written, and the completion of the IN request has length L.
C8_RoundTrip ==
    \A j \in 2..Len(used_ring) :
        LET o == used_ring[j - 1].id
            r == used_ring[j].id
            L == SumLens(DataDescs(o))
        IN (/\ ChainType(o) = VIRTIO_BLK_T_OUT /\ ChainType(r) = VIRTIO_BLK_T_IN
            /\ ChainSector(o) = ChainSector(r)
            /\ SumLens(DataDescs(r)) = L
            /\ L > 0 /\ L % SECTOR_BSIZE = 0
            /\ ChainSector(o) * SECTOR_BSIZE + L <= SECTORS_NUM * SECTOR_BSIZE)
           => /\ Norm(ConcatBuffers(DataDescs(r))) = Norm(ConcatBuffers(DataDescs(o)))
              /\ used_ring[j].len = L

\* C9: a completed GET_ID request has put the 20 bytes of the device
\* identifier, the same on every execution and none of them from outside the
\* identifier, into its first data buffer, and has one completion with its head.
C9_GetIdFixed ==
    LET GetIds == { i \in 1..Len(used_ring) :
                      /\ ChainType(used_ring[i].id) = VIRTIO_BLK_T_GET_ID
                      /\ DataDescs(used_ring[i].id) # <<>> }
        IdOf(i) == Slice(mem[vm_ipa2pa(desc_addr(DataDescs(used_ring[i].id)[1]))],
                         0, GET_ID_COPY_LEN)
    IN \A i \in GetIds :
          /\ RunsLen(IdOf(i)) = GET_ID_COPY_LEN
          /\ \A n \in 1..Len(IdOf(i)) : IdOf(i)[n].val \notin OOB_BYTES
          /\ \A i2 \in GetIds : IdOf(i2) = IdOf(i)
          /\ Cardinality({ n \in 1..Len(used_ring) : used_ring[n].id = used_ring[i].id }) = 1

\* C10: a notification for a queue that is not ready returns false and
\* changes nothing: rings, notification flag, guest memory and backing store
\* are as before.
C10_NotReadyNoEffect ==
    [][(npc = "idle" /\ kicks' = kicks - 1 /\ ready = 0) =>
          /\ npc' = "idle" /\ nret' = RetBool(FALSE)
          /\ UNCHANGED <<avail_ring, last_avail_idx, used_flags, used_ring,
                         desc_table, mem, BLOCK_DEVICE, ready>>]_vars

\* a kick for a queue that is not ready was refused with a chain in the ring
C10_Witness ==
    /\ ready = 0 /\ npc = "idle" /\ kicks = 0 /\ nret = RetBool(FALSE)
    /\ Len(avail_ring) >= 1 /\ last_avail_idx = 0 /\ used_ring = <<>>

\* the chains of the snapshot of the running notification: parsed, being
\* parsed, or still to be popped
SnapshotHeads ==
    { req_list[i].desc_chain_head_idx : i \in 1..Len(req_list) }
       \cup (IF next_desc_idx_opt = None THEN {} ELSE {next_desc_idx_opt})
       \cup { Published(k) : k \in (last_avail_idx + 1)..avail_idx }

\* the handler gives up while parsing a chain
ParseAbort == npc = "parse" /\ npc' = "idle"

\* C11: execution strictly follows parsing: while the chains of a snapshot
\* are popped and parsed the backing store and the used ring stay as they
\* are, once execution has begun no chain is parsed any more, and a run that
\* gives up while parsing returns false with no completion posted for any
\* chain of its snapshot.
C11_ParseBeforeExecute ==
    [][/\ npc \in {"loop", "check", "parse"}
             => (BLOCK_DEVICE' = BLOCK_DEVICE /\ used_ring' = used_ring)
       /\ npc = "process" => npc' \in {"process", "idle"}
       /\ ParseAbort
             => /\ nret' = RetBool(FALSE)
                /\ \A i \in 1..Len(used_ring') : used_ring'[i].id \notin SnapshotHeads]_vars

\* a run parsed an OUT request, wrote its status byte, gave up on the second
\* chain and left the backing store and the used ring untouched
C11_Witness ==
    /\ npc = "idle" /\ nret = RetBool(FALSE) /\ ready = 1
    /\ last_avail_idx = 2 /\ avail_idx = 2
    /\ ChainType(Published(1)) = VIRTIO_BLK_T_OUT
    /\ mem[vm_ipa2pa(desc_addr(TailOf(Published(1))))] = Fill(1, VIRTIO_BLK_S_OK)
    /\ used_ring = <<>>
    /\ BLOCK_DEVICE = Fill(SECTOR_BSIZE * SECTORS_NUM, 0)

\* the handler executes the request at the head of req_list in this step
ExecStep == npc = "process" /\ req_list # <<>> /\ ~panicked

RECURSIVE IovLenBefore(_, _)
IovLenBefore(iov, i) == IF i <= 1 THEN 0 ELSE iov[i - 1].len + IovLenBefore(iov, i - 1)

\* the byte offset at which entry i of the request's I/O vector is executed
IovOffset(req, i) == IntOfUsize(req.sector) * SECTOR_BSIZE + IovLenBefore(req.iov, i)

\* entry i does not pass the capacity check of the backing store
OverCapacity(req, i) ==
    IovOffset(req, i) + req.iov[i].len >= SECTOR_BSIZE * SECTORS_NUM

UsedFailStep == ExecStep /\ ~panicked' /\ Len(used_ring) >= vq_num

C14_NeverTerminates ==
    /\ ~panicked
    /\ (npc = "idle" /\ nret # NoRet) => nret \in {RetBool(TRUE), RetBool(FALSE)}

\* the handler parses the chain with head next_desc_idx_opt in this step
ParseStep == npc = "parse" /\ ~panicked /\ npc' # "parse"

ParseOk == ParseStep /\ npc' = "loop"

\* the request type of the chain being parsed: read from the header, or the
\* default of VirtioBlkReqNode when the chain is its tail only
ParsedType ==
    IF desc_has_next(next_desc_idx_opt) THEN ChainType(next_desc_idx_opt)
    ELSE VIRTIO_BLK_T_IN

\* C19: a chain whose tail descriptor is not device-writable makes the
\* handler return false; for a chain that is accepted the tail is
\* device-writable and the one status byte written there is UNSUPP (2) exactly
\* when the request type is none of IN (0), OUT (1), GET_ID (8), and OK (0)
\* otherwise.
C19_TailStatus ==
    [][/\ (ParseStep /\ ~desc_is_writable(TailOf(next_desc_idx_opt)))
             => (npc' = "idle" /\ nret' = RetBool(FALSE))
       /\ ParseOk
             => LET t == TailOf(next_desc_idx_opt) IN
                /\ desc_is_writable(t)
                /\ mem'[vm_ipa2pa(desc_addr(t))] =
                      Fill(1, IF ParsedType \in {VIRTIO_BLK_T_IN, VIRTIO_BLK_T_OUT,
                                                 VIRTIO_BLK_T_GET_ID}
                              THEN VIRTIO_BLK_S_OK ELSE VIRTIO_BLK_S_UNSUPP)]_vars

\* a FLUSH request was accepted with status UNSUPP and an IN request with
\* status OK
C19_Witness ==
    /\ Len(req_list) = 2 /\ npc = "loop"
    /\ ChainType(Published(1)) = VIRTIO_BLK_T_FLUSH
    /\ mem[vm_ipa2pa(desc_addr(TailOf(Published(1))))] = Fill(1, VIRTIO_BLK_S_UNSUPP)
    /\ ChainType(Published(2)) = VIRTIO_BLK_T_IN
    /\ mem[vm_ipa2pa(desc_addr(TailOf(Published(2))))] = Fill(1, VIRTIO_BLK_S_OK)

\* the header of the chain being parsed can be read by the device
HeadReadable ==
    /\ desc_has_next(next_desc_idx_opt)
    /\ ~desc_is_writable(next_desc_idx_opt)
    /\ vm_ipa2pa(desc_addr(next_desc_idx_opt)) # 0

\* the direction of data descriptor d does not fit request type t
Mismatch(t, d) ==
    \/ t = VIRTIO_BLK_T_IN /\ ~desc_is_writable(d)
    \/ t = VIRTIO_BLK_T_OUT /\ desc_is_writable(d)

SeqToSet(q) == { q[i] : i \in 1..Len(q) }

\* a data descriptor of the wrong direction makes the handler return false
MismatchRejected ==
    (/\ ParseStep /\ HeadReadable
     /\ \E d \in SeqToSet(DataDescs(next_desc_idx_opt)) : Mismatch(ParsedType, d))
        => (npc' = "idle" /\ nret' = RetBool(FALSE))

\* the header and the tail of the chain being parsed pass their checks
HeadAndTailFit ==
    /\ HeadReadable
    /\ desc_is_writable(TailOf(next_desc_idx_opt))
    /\ vm_ipa2pa(desc_addr(TailOf(next_desc_idx_opt))) # 0

\* the request parsed in this step has one entry per data descriptor
OneEntryEach ==
    LET D == DataDescs(next_desc_idx_opt)
        node == req_list'[Len(req_list')]
    IN /\ npc' = "loop"
       /\ req_list' = Append(req_list, node)
       /\ node.iov = [j \in 1..Len(D) |->
                         [data_bg |-> vm_ipa2pa(desc_addr(D[j])), len |-> desc_len(D[j])]]
       /\ node.iov_sum_up = SumLens(D)

\* C20 as stated: with request type IN a data descriptor is accepted only if
\* it is device-writable, with OUT only if it is not; a mismatch makes the
\* handler return false, and every data descriptor of the fitting direction
\* adds exactly one I/O-vector entry {translated address, length} and its
\* length to the byte count of the request.
C20_MatchingAddsEntry ==
    [][/\ MismatchRejected
       /\ (/\ ParseStep /\ HeadAndTailFit
            /\ ParsedType \in IoTypes
            /\ \A d \in SeqToSet(DataDescs(next_desc_idx_opt)) : ~Mismatch(ParsedType, d))
             => OneEntryEach]_vars

\* C20 amended: with request type IN a data descriptor is accepted only if it
\* is device-writable, with OUT only if it is not; a mismatch makes the
\* handler return false; a data descriptor of the fitting direction whose
\* address translates adds exactly one I/O-vector entry {translated address,
\* length}, in order, and its length to the byte count of the request; one
\* whose address translates to 0 makes the handler return false.
C20_DataDirection ==
    [][/\ MismatchRejected
       /\ (/\ ParseStep /\ HeadReadable
            /\ \E d \in SeqToSet(DataDescs(next_desc_idx_opt)) :
                  vm_ipa2pa(desc_addr(d)) = 0)
             => (npc' = "idle" /\ nret' = RetBool(FALSE))
       /\ (ParseOk /\ desc_has_next(next_desc_idx_opt)) => OneEntryEach
       /\ (/\ ParseStep /\ HeadAndTailFit
            /\ ParsedType \in IoTypes
            /\ \A d \in SeqToSet(DataDescs(next_desc_idx_opt)) :
                  ~Mismatch(ParsedType, d) /\ vm_ipa2pa(desc_addr(d)) # 0)
             => OneEntryEach]_vars

\* an OUT request with a readable data buffer was accepted with one entry
\* for it, and the chain behind it, an IN request whose writable data buffer
\* has an address that does not translate, made the handler return false
C20_Witness ==
    /\ npc = "idle" /\ nret = RetBool(FALSE) /\ last_avail_idx = 2
    /\ ChainType(Published(1)) = VIRTIO_BLK_T_OUT
    /\ DataDescs(Published(1)) # <<>>
    /\ mem[vm_ipa2pa(desc_addr(TailOf(Published(1))))] = Fill(1, VIRTIO_BLK_S_OK)
    /\ ChainType(Published(2)) = VIRTIO_BLK_T_IN
    /\ DataDescs(Published(2)) # <<>>
    /\ \A j \in 1..Len(DataDescs(Published(2))) :
           /\ desc_is_writable(DataDescs(Published(2))[j])
           /\ vm_ipa2pa(desc_addr(DataDescs(Published(2))[j])) = 0
    /\ desc_is_writable(TailOf(Published(2)))
    /\ vm_ipa2pa(desc_addr(TailOf(Published(2)))) # 0

\* C18: emu_handler does not hold the registry lock while the matched handler
\* runs: the core that runs a handler never holds the lock, and the lock is
\* only ever held by a core inside the scan of emu_handler or the check and
\* push of emu_register_dev, which end without waiting for anything; so a
\* call made by the handler itself, or by another core meanwhile, gets the lock.
C18_LockNotHeldInHandler ==
    /\ \A c \in Cores : epc[c] = "emu_call" => lock # c
    /\ lock # NoCore => epc[lock] \in {"emu_scan", "reg_check", "reg_push"}
    /\ \A c \in Cores : estack[c] # <<>> => epc[c] # "idle"

\* the handler running on core 1 has registered a device and got the result
\* back, and core 2 holds the lock for a registration of its own meanwhile
C18_Witness ==
    /\ epc[1] = "emu_call" /\ estack[1] = <<>> /\ eret[1] = RetUnit
    /\ epc[2] = "reg_push" /\ lock = 2
    /\ ~panicked

-----------------------------------------------------------------------------
(* Properties of the vCPU *)

\* C15: whatever the hardware hstatus and sstatus hold when VCpu::create is
\* called, the layout it returns is zero in every field, except that guest
\* hstatus has SPV set and guest sstatus has SPP set to supervisor.
C15_CreateZeroButTwoBits ==
    vpc = "created" =>
        regs = [VmCpuRegisters_default EXCEPT !.guest_regs.hstatus = HSTATUS_SPV,
                                              !.guest_regs.sstatus = SSTATUS_SPP]

\* what the trap registers of the hart hold: those of the most recent exit
TrapRegs ==
    [scause |-> csr.scause, stval |-> csr.stval, htval |-> csr.htval,
     htinst |-> csr.htinst]

\* C16: in every iteration of VCpu::run the guest is entered, then the four
\* trap registers are read into trap_csrs, then the exit handler is called:
\* the handler is called exactly once per guest trap, finds in trap_csrs the
\* registers of the most recent exit, and the guest is not entered again
\* between a trap and the call of the handler for it.
C16_RunOrder ==
    /\ [](owed \in {0, 1})
    /\ [](vpc \in {"exited", "handler"} <=> owed = 1)
    /\ [][/\ vpc = "guest" => vpc' = "exited"
          /\ vpc = "exited" => (vpc' = "handler" /\ regs'.trap_csrs = TrapRegs)
          /\ vpc = "handler" => (vpc' = "loop" /\ owed' = 0 /\ seen' = TrapRegs)
          /\ vpc' = "guest" => (vpc \in {"created", "loop"} /\ owed = 0)
          /\ seen' # seen => vpc = "handler"]_vars

\* the handler has been called for a second exit, whose registers differ
\* from those of the first, and the loop is about to enter the guest again
C16_Witness ==
    /\ vpc = "loop" /\ owed = 0
    /\ seen.scause = 23 /\ seen = regs.trap_csrs /\ seen.stval # seen.htval
    /\ regs.guest_regs.sepc = 4

\* C17: for the GPR indices 1..31 the byte offset into the hypervisor section
\* and into the guest section is the offset of index 0 of the section plus
\* 8 * index: pairwise distinct, strictly increasing with the index, a
\* multiple of 8, and no hypervisor offset equals a guest offset.
C17_GprOffsets ==
    /\ \A i \in GprIndex :
          /\ hyp_gpr_offset(i) = hyp_gpr_offset(0) + 8 * i
          /\ guest_gpr_offset(i) = guest_gpr_offset(0) + 8 * i
          /\ hyp_gpr_offset(i) % 8 = 0 /\ guest_gpr_offset(i) % 8 = 0
    /\ \A i, j \in GprIndex :
          /\ i < j => (hyp_gpr_offset(i) < hyp_gpr_offset(j)
                       /\ guest_gpr_offset(i) < guest_gpr_offset(j))
          /\ hyp_gpr_offset(i) # guest_gpr_offset(j)
    /\ gpr_off # NoOffsets
          => /\ gpr_off.hyp = hyp_gpr_offset(0) + 8 * gpr_off.index
             /\ gpr_off.guest = guest_gpr_offset(0) + 8 * gpr_off.index
             /\ gpr_off.hyp # gpr_off.guest

\* the offsets of t6, the last register, have been evaluated
C17_Witness ==
    /\ gpr_off.index = 31
    /\ gpr_off.hyp = 248
    /\ gpr_off.guest > gpr_off.hyp + 8

-----------------------------------------------------------------------------
(* Completions *)

\* the bytes the request brings from the backing store into guest buffers:
\* the lengths of the entries whose copy takes place
RECURSIVE BytesTransferred(_, _)
BytesTransferred(req, i) ==
    IF i > Len(req.iov) THEN 0
    ELSE (IF mem'[req.iov[i].data_bg] = mem[req.iov[i].data_bg] THEN 0
          ELSE req.iov[i].len)
         + BytesTransferred(req, i + 1)

\* C21: the length posted in the completion of an IN request is the number of
\* bytes the request transferred from the backing store into the guest's
\* buffers; the length posted for an OUT or FLUSH request is 0.
C21_PostedLength ==
    [][(ExecStep /\ ~panicked' /\ Len(used_ring') > Len(used_ring))
          => LET req == Head(req_list)
                 posted == used_ring'[Len(used_ring')].len
             IN /\ req.req_type = VIRTIO_BLK_T_IN => posted = BytesTransferred(req, 1)
                /\ req.req_type \in {VIRTIO_BLK_T_OUT, VIRTIO_BLK_T_FLUSH}
                      => posted = 0]_vars

-----------------------------------------------------------------------------
(* Chains and completions *)

\* the heads of the positions 1..k of the available ring, the dropped left out
RECURSIVE KeptHeads(_)
KeptHeads(k) ==
    IF k = 0 THEN <<>>
    ELSE KeptHeads(k - 1) \o (IF k \in dropped THEN <<>> ELSE <<Published(k)>>)

UsedIds == [i \in 1..Len(used_ring) |-> used_ring[i].id]

PendingHeads == [i \in 1..Len(req_list) |-> req_list[i].desc_chain_head_idx]

CurrentHead == IF next_desc_idx_opt = None THEN <<>> ELSE <<next_desc_idx_opt>>

\* a notification returns true
TrueReturn == npc = "process" /\ npc' = "idle" /\ nret' = RetBool(TRUE)

\* C23: as long as no notification that popped a chain has returned false,
\* the chains popped so far are, in the order of the available ring and each
\* exactly once, the completions posted followed by the requests still to
\* execute and the chain being parsed; a notification that returns true has
\* nothing left to execute, so each chain it popped has its one completion,
\* with the head index of the chain; the consumer index only moves forward,
\* one chain at a time.
C23_CompletedOnce ==
    /\ []((dropped = {} /\ ~panicked)
            => UsedIds \o PendingHeads \o CurrentHead
                  = [k \in 1..last_avail_idx |-> Published(k)])
    /\ [][TrueReturn => (req_list = <<>> /\ next_desc_idx_opt = None
                          /\ used_ring' = used_ring)]_vars
    /\ [][last_avail_idx' \in {last_avail_idx, last_avail_idx + 1}]_vars

\* two notifications returned true, each after completing the one chain it
\* popped
C23_Witness ==
    /\ npc = "idle" /\ nret = RetBool(TRUE) /\ dropped = {} /\ ~panicked
    /\ last_avail_idx = 2 /\ avail_idx = 2
    /\ UsedIds = <<Published(1), Published(2)>>
    /\ Published(1) # Published(2)

\* the handler returns after having popped at least one chain: it gives up while
\* parsing, or it leaves process_blk_requests
ReturnAfterPop == npc \in {"parse", "process"} /\ npc' = "idle"

\* C24: whenever the handler returns after having popped at least one chain,
\* with true or with false, VRING_USED_F_NO_NOTIFY is clear in the flags of
\* the used ring, so that the driver's next publication is followed by a
\* kick.
C24_NotifyReenabled ==
    [][ReturnAfterPop => used_flags' % 2 # VRING_USED_F_NO_NOTIFY]_vars

\* the status byte of the chain at position k of the available ring has been
\* written by the device
StatusAddr(k) == vm_ipa2pa(desc_addr(TailOf(Published(k))))

StatusWritten(k) ==
    /\ StatusAddr(k) # 0
    /\ mem[StatusAddr(k)] \in {Fill(1, VIRTIO_BLK_S_OK), Fill(1, VIRTIO_BLK_S_UNSUPP)}

StatusWrittenNext(k) ==
    /\ StatusAddr(k) # 0
    /\ mem'[StatusAddr(k)] \in {Fill(1, VIRTIO_BLK_S_OK), Fill(1, VIRTIO_BLK_S_UNSUPP)}

\* C25: a notification that gives up while parsing its k-th chain leaves the
\* consumer index behind all k chains it popped and posts no completion; the
\* k chains are the ones recorded as dropped; none of them is ever completed,
\* queued or popped again, since the consumer index never moves back and the
\* completions and queued requests are those of the chains not dropped; the
\* status bytes written for the first k-1 chains are in guest memory at the
\* return and stay there.
C25_AbortConsumes ==
    /\ [][ParseAbort
            => LET k == Len(req_list) + 1 IN
               /\ last_avail_idx' = last_avail_idx
               /\ used_ring' = used_ring
               /\ req_list' = <<>>
               /\ dropped' = dropped \cup ((last_avail_idx - k + 1)..last_avail_idx)
               /\ PendingHeads \o CurrentHead
                     = [i \in 1..k |-> Published(last_avail_idx - k + i)]
               /\ \A i \in 1..(k - 1) : StatusWrittenNext(last_avail_idx - k + i)]_vars
    /\ [][last_avail_idx' >= last_avail_idx /\ dropped \subseteq dropped']_vars
    /\ [](~panicked
            => UsedIds \o PendingHeads \o CurrentHead = KeptHeads(last_avail_idx))
    /\ [][\A k \in 1..last_avail_idx : StatusWritten(k) => StatusWrittenNext(k)]_vars

\* a notification gave up on the second chain of its batch: both chains are
\* consumed, nothing was completed, the status byte of the first is written;
\* a later notification has found nothing to pop and returned true
C25_Witness ==
    /\ npc = "idle" /\ ~panicked /\ nret = RetBool(TRUE)
    /\ dropped = {1, 2} /\ last_avail_idx = 2 /\ avail_idx = 2
    /\ used_ring = <<>>
    /\ StatusWritten(1) /\ ~StatusWritten(2)

-----------------------------------------------------------------------------
(* The backing store and 64-bit sectors *)

\* C26: for every 64-bit sector and every length, with the arithmetic taken
\* modulo 2^64, the execution of an IN or OUT request ends without a panic:
\* an entry outside the 16384 bytes of the backing store is a failed I/O
\* call, and the backing store and the guest buffers keep their sizes, no
\* byte outside them being read or written.
C26_InsideOrFailed ==
    [][(ExecStep /\ Head(req_list).req_type \in IoTypes)
          => /\ ~panicked'
             /\ RunsLen(BLOCK_DEVICE') = SECTOR_BSIZE * SECTORS_NUM
             /\ \A a \in HostAddrs : RunsLen(mem'[a]) = RunsLen(mem[a])]_vars

====
